---- MODULE Spec2Model ----
(***************************************************************************)
(* A model of the dispatch service layer: the participant resolver         *)
(* (participant/service.py), the term upsert (term/service.py) and the     *)
(* entity recalculation flow (entity_type/flows.py).                       *)
(*                                                                         *)
(* Tables are sequences of rows; a row's primary key is its index.  NULL   *)
(* foreign keys and None are written 0.  Strings that the code takes apart *)
(* (emails) are sequences of characters.                                   *)
(***************************************************************************)
EXTENDS Integers, Sequences, FiniteSets, TLC

VARIABLES
    participant,        \* table participant: Seq of rows
    participant_role,   \* table participant_role: Seq of rows
    created_for,        \* history: the call (subject, individual) each participant row was created by
    pc,                 \* per caller: where its call stands
    args,               \* per caller: the arguments of its call
    found,              \* per caller: the local `participant` after the query
    seen,               \* history, per caller: how many participant rows there were at its query
    ret,                \* per caller: the value its call returned
    term,               \* table term: Seq of rows, definitions being the rows of definition_terms
    definition,         \* table definition: Seq of rows
    term_call,          \* the last call of the term service, its result, and (history) the definitions the term had
    signal_entity_types,\* signal.entity_types of each signal, in the session
    entities,           \* signal_instance.entities of each signal instance, in the session
    committed,          \* what the database holds committed of the two
    flow,               \* recalculate_entity_flow: where it stands, its arguments and result
    log                 \* how many warnings were logged

pvars == <<participant, participant_role, created_for, pc, args, found, seen, ret>>
tvars == <<term, definition, term_call>>
evars == <<signal_entity_types, entities, committed, flow, log>>
vars == <<pvars, tvars, evars>>

(***************************************************************************)
(* Bounds of the model.                                                    *)
(***************************************************************************)
MaxParticipants == 2
MaxRoleRows == 2
MaxTerms == 2
MaxEntityTypes == 2
MaxLog == 2

Procs == {1, 2}

None == 0

(***************************************************************************)
(* The collaborators' data: subjects, individuals, services, plugins.      *)
(***************************************************************************)
SubjectTypes == {"incident", "case"}

\* incident 1 and case 1 exist; no subject has id 2
IncidentIds == {1}
CaseIds == {1}
\* the subjects a caller may name: <<subject_type, subject_id>>
SubjectRefs == {<<"incident", 1>>, <<"incident", 2>>, <<"case", 1>>}

\* incident 1 belongs to project 1, case 1 to project 2
ProjectOf(subject_type, subject_id) == IF subject_type = "incident" THEN 1 ELSE 2

\* project 2 has an active plugin of type "contact", project 1 has none
ContactPluginProjects == {2}

IndividualIds == {1, 2}

Email(individual_id) ==
    IF individual_id = 1
    THEN <<"a", "@", "e", "x", "a", "m", "p", "l", "e", ".", "c", "o", "m">>
    ELSE <<"b", "@", "c", "o", "r", "p", ".", "i", "o">>

ServiceIds == {1, 2}
\* service ids a caller may pass: none (0) or a service
ServiceIdArgs == {0, 1, 2}

RoleNames == {"participant", "incident_commander"}

Unknown == <<"U", "n", "k", "n", "o", "w", "n">>

\* what a contact plugin may answer: any part of this record
PluginKeys == {"location", "team", "department"}
PluginValue(k) ==
    CASE k = "location" -> <<"N", "Y", "C">>
      [] k = "team" -> <<"s", "r", "e">>
      [] OTHER -> <<"o", "p", "s">>

\* the directory behind the plugin knows the team of individual 1 only, and
\* the location and department of individual 2 only
PluginKnows(individual_id) ==
    IF individual_id = 1 THEN {"team"} ELSE {"location", "department"}

(***************************************************************************)
(* str.split(sep)[i]                                                       *)
(***************************************************************************)
RECURSIVE Split(_, _, _)
\* the parts of s cut at every sep, cur being the part under way
Split(s, sep, cur) ==
    IF s = <<>> THEN <<cur>>
    ELSE IF Head(s) = sep THEN <<cur>> \o Split(Tail(s), sep, <<>>)
    ELSE Split(Tail(s), sep, Append(cur, Head(s)))

\* dict.get(key, default)
DictGet(info, key, default) == IF key \in DOMAIN info THEN info[key] ELSE default

(***************************************************************************)
(* Queries                                                                 *)
(***************************************************************************)
Ids(table) == DOMAIN table

SubjectIdOf(row, subject_type) ==
    IF subject_type = "incident" THEN row.incident_id ELSE row.case_id

\* the rows get_or_create's query selects
PairMatches(subject_id, subject_type, individual_id) ==
    {id \in Ids(participant) :
        /\ SubjectIdOf(participant[id], subject_type) = subject_id
        /\ participant[id].individual_contact_id = individual_id}

\* incident_service.get / case_service.get find the subject
SubjectExists(subject_type, subject_id) ==
    IF subject_type = "incident" THEN subject_id \in IncidentIds
    ELSE subject_id \in CaseIds

\* service_service.get
ServiceGet(service_id) == IF service_id \in ServiceIds THEN service_id ELSE None

\* participant.participant_roles
RolesOf(id) == {r \in Ids(participant_role) : participant_role[r].participant_id = id}

\* Query.one_or_none() over a set of entities: [raised, value]
OneOrNone(rows) ==
    IF Cardinality(rows) > 1 THEN [raised |-> TRUE, value |-> None]
    ELSE IF rows = {} THEN [raised |-> FALSE, value |-> None]
    ELSE [raised |-> FALSE, value |-> CHOOSE id \in rows : TRUE]

\* Query.first() over a set of entities, no ORDER BY: any of them may come first
First(rows) == IF rows = {} THEN {None} ELSE rows

IdleArgs ==
    [op |-> "none", subject_type |-> "incident", subject_id |-> 0,
     individual_id |-> 0, service_id |-> 0, participant_roles |-> <<>>,
     role |-> "participant"]

RECURSIVE SeqsUpTo(_, _)
SeqsUpTo(S, n) ==
    IF n = 0 THEN {<<>>}
    ELSE LET shorter == SeqsUpTo(S, n - 1)
         IN  shorter \cup {Append(s, x) : s \in shorter, x \in S}

\* the calls of get_or_create over the given arguments
GetOrCreateCalls(subjects, individuals, services, rolelists) ==
    {[op |-> "get_or_create", subject_type |-> s[1], subject_id |-> s[2],
      individual_id |-> i, service_id |-> v, participant_roles |-> l,
      role |-> "participant"] :
        s \in subjects, i \in individuals, v \in services, l \in rolelists}

(***************************************************************************)
(* participant_role_service.create for each role of a list, the new rows   *)
(* belonging to participant id                                             *)
(***************************************************************************)
RoleRows(roles, id) ==
    [i \in 1..Len(roles) |->
        [role |-> roles[i], renounced_at |-> None, participant_id |-> id]]

(***************************************************************************)
(* get_or_create, the query                                                *)
(***************************************************************************)
GetOrCreateQuery(p, calls) ==
    /\ pc[p] = "idle"
    /\ \E call \in calls :
        LET rows == PairMatches(call.subject_id, call.subject_type, call.individual_id)
            one == OneOrNone(rows)
        IN  /\ Len(participant_role) + Len(call.participant_roles) <= MaxRoleRows
            /\ args' = [args EXCEPT ![p] = call]
            /\ pc' = [pc EXCEPT ![p] = IF one.raised THEN "raised" ELSE "queried"]
            /\ found' = [found EXCEPT ![p] = one.value]
            /\ seen' = [seen EXCEPT ![p] = Len(participant)]
    /\ UNCHANGED <<participant, participant_role, created_for, ret>>
    /\ UNCHANGED <<tvars, evars>>

(***************************************************************************)
(* The values of location, team and department for a new participant       *)
(***************************************************************************)
DefaultTeam_localpart(email) == Split(email, "@", <<>>)[1]

\* individual_contact.email.split("@")[1]
DefaultTeam(email) == Split(email, "@", <<>>)[2]

Enrich_coupled(individual_info, email) ==
    IF DOMAIN individual_info = {"location", "team", "department"}
    THEN [location |-> individual_info["location"], team |-> individual_info["team"],
          department |-> individual_info["department"]]
    ELSE [location |-> Unknown, team |-> DefaultTeam(email), department |-> Unknown]

Enrich(individual_info, email) ==
    [location |-> DictGet(individual_info, "location", Unknown),
     team |-> DictGet(individual_info, "team", DefaultTeam(email)),
     department |-> DictGet(individual_info, "department", Unknown)]

\* plugin_service.get_active_instance(project_id, "contact") and, when there is
\* one, contact_plugin.instance.get(email): the dict individual_info
IndividualInfo(project_id, individual_id) ==
    IF project_id \in ContactPluginProjects
    THEN [k \in PluginKnows(individual_id) |-> PluginValue(k)]
    ELSE <<>>

(***************************************************************************)
(* create: the row of the new participant                                  *)
(***************************************************************************)
NewParticipant(fields, service_id) ==
    [incident_id |-> None, case_id |-> None, individual_contact_id |-> None,
     service_id |-> IF service_id # None THEN ServiceGet(service_id) ELSE None,
     team |-> fields.team, department |-> fields.department,
     location |-> fields.location]

(***************************************************************************)
(* get_or_create, the miss path                                            *)
(***************************************************************************)
\* the fault as it would be if create (line 207) ran before the dereference
MissFault_after_create(p) ==
    /\ pc' = [pc EXCEPT ![p] = "faulted"]
    /\ participant' =
            IF Len(participant) < MaxParticipants
            THEN Append(participant,
                        NewParticipant(Enrich(<<>>, Email(args[p].individual_id)),
                                       args[p].service_id))
            ELSE participant
    /\ UNCHANGED <<participant_role, created_for, ret>>

\* line 195 with subject None: subject.project raises AttributeError; lines
\* 184-192 before it only read
MissFault(p) ==
    /\ pc' = [pc EXCEPT ![p] = "faulted"]
    /\ UNCHANGED <<participant, participant_role, created_for, ret>>

\* lines 184-217: the subject, the enrichment and create
MissPath(p) ==
    IF ~SubjectExists(args[p].subject_type, args[p].subject_id)
    THEN MissFault(p)
    ELSE /\ Len(participant) < MaxParticipants
         /\ Len(participant_role) + Len(args[p].participant_roles) <= MaxRoleRows
         /\ LET id == Len(participant) + 1
                info == IndividualInfo(ProjectOf(args[p].subject_type, args[p].subject_id),
                                       args[p].individual_id)
                fields == Enrich(info, Email(args[p].individual_id))
            IN  /\ participant' =
                        Append(participant, NewParticipant(fields, args[p].service_id))
                /\ participant_role' =
                        participant_role \o RoleRows(args[p].participant_roles, id)
                /\ created_for' = Append(created_for,
                        <<args[p].subject_type, args[p].subject_id, args[p].individual_id>>)
                /\ ret' = [ret EXCEPT ![p] = id]
                /\ pc' = [pc EXCEPT ![p] = "returned"]

GetOrCreateMiss_atomic(p) ==
    /\ pc[p] = "queried"
    /\ args[p].op = "get_or_create"
    /\ found[p] = None
    /\ LET rows == PairMatches(args[p].subject_id, args[p].subject_type,
                               args[p].individual_id)
       IN  IF rows # {}
           THEN /\ ret' = [ret EXCEPT ![p] = CHOOSE id \in rows : TRUE]
                /\ pc' = [pc EXCEPT ![p] = "returned"]
                /\ UNCHANGED <<participant, participant_role, created_for>>
           ELSE MissPath(p)
    /\ UNCHANGED <<args, found, seen>>
    /\ UNCHANGED <<tvars, evars>>

GetOrCreateMiss(p) ==
    /\ pc[p] = "queried"
    /\ args[p].op = "get_or_create"
    /\ found[p] = None
    /\ MissPath(p)
    /\ UNCHANGED <<args, found, seen>>
    /\ UNCHANGED <<tvars, evars>>

(***************************************************************************)
(* get_or_create, the hit path                                             *)
(***************************************************************************)
HitServiceId_overwrite(row, service_id) ==
    IF ServiceGet(service_id) # None THEN service_id ELSE row.service_id

\* the service of the participant after the hit path
HitServiceId(row, service_id) ==
    IF row.service_id = None
    THEN (IF ServiceGet(service_id) # None THEN service_id ELSE row.service_id)
    ELSE row.service_id

HitRoleRows_dedup(roles, id) ==
    LET held == {participant_role[r].role : r \in RolesOf(id)}
        fresh == SelectSeq(roles, LAMBDA x : x \notin held)
    IN  RoleRows(fresh, id)

\* the rows the hit path appends to participant_role
HitRoleRows(roles, id) == RoleRows(roles, id)

GetOrCreateHit(p) ==
    /\ pc[p] = "queried"
    /\ args[p].op = "get_or_create"
    /\ found[p] # None
    /\ Len(participant_role) + Len(args[p].participant_roles) <= MaxRoleRows
    /\ participant_role' =
            participant_role \o HitRoleRows(args[p].participant_roles, found[p])
    /\ participant' = [participant EXCEPT ![found[p]].service_id =
            HitServiceId(participant[found[p]], args[p].service_id)]
    /\ ret' = [ret EXCEPT ![p] = found[p]]
    /\ pc' = [pc EXCEPT ![p] = "returned"]
    /\ UNCHANGED <<created_for, args, found, seen>>
    /\ UNCHANGED <<tvars, evars>>

(***************************************************************************)
(* The caller of get_or_create ties the participant it was given to the    *)
(* subject and the individual of its call.                                 *)
(***************************************************************************)
Associate(p) ==
    /\ pc[p] = "returned"
    /\ args[p].op = "get_or_create"
    /\ participant' = [participant EXCEPT ![ret[p]] =
            [@ EXCEPT !.incident_id =
                        IF args[p].subject_type = "incident" THEN args[p].subject_id ELSE @,
                      !.case_id =
                        IF args[p].subject_type = "case" THEN args[p].subject_id ELSE @,
                      !.individual_contact_id = args[p].individual_id]]
    /\ UNCHANGED <<participant_role, created_for, pc, args, found, seen, ret>>
    /\ UNCHANGED <<tvars, evars>>

\* a caller renounces a role: its renounced_at is set
Renounce(p) ==
    /\ pc[p] = "idle"
    /\ \E r \in Ids(participant_role) :
        /\ participant_role[r].renounced_at = None
        /\ participant_role' = [participant_role EXCEPT ![r].renounced_at = 1]
    /\ UNCHANGED <<participant, created_for, pc, args, found, seen, ret>>
    /\ UNCHANGED <<tvars, evars>>

(***************************************************************************)
(* The lookups                                                             *)
(***************************************************************************)
RoleJoinRows_renounced_too(incident_id, role) ==
    {<<id, r>> \in Ids(participant) \X Ids(participant_role) :
        /\ participant_role[r].participant_id = id
        /\ participant[id].incident_id = incident_id
        /\ participant_role[r].role = role}

\* participant JOIN participant_role, filtered: the rows <<participant, role>>
RoleJoinRows(incident_id, role) ==
    {<<id, r>> \in Ids(participant) \X Ids(participant_role) :
        /\ participant_role[r].participant_id = id
        /\ participant[id].incident_id = incident_id
        /\ participant_role[r].renounced_at = None
        /\ participant_role[r].role = role}

\* a Query of one entity gives each entity once
Entities(rows) == {row[1] : row \in rows}

get_by_incident_id_and_role(incident_id, role) ==
    OneOrNone(Entities(RoleJoinRows(incident_id, role)))

ServiceMatches(subject_type, subject_id, service_id) ==
    {id \in Ids(participant) :
        /\ SubjectIdOf(participant[id], subject_type) = subject_id
        /\ participant[id].service_id = service_id}

\* the outcomes of get_by_incident_id_and_service_id
get_by_incident_id_and_service_id(incident_id, service_id) ==
    {[raised |-> FALSE, value |-> v] :
        v \in First(ServiceMatches("incident", incident_id, service_id))}

\* the outcomes of get_by_case_id_and_service_id
get_by_case_id_and_service_id(case_id, service_id) ==
    {OneOrNone(ServiceMatches("case", case_id, service_id))}

\* the frame of a lookup
LookupArgs(op, subject_type, subject_id, role, service_id) ==
    [IdleArgs EXCEPT !.op = op, !.subject_type = subject_type,
                     !.subject_id = subject_id, !.role = role,
                     !.service_id = service_id]

\* a caller looks a participant up; outs are the outcomes the lookup may have
LookupReturns(p, frame, outs) ==
    /\ pc[p] = "idle"
    /\ \E out \in outs :
        /\ args' = [args EXCEPT ![p] = frame]
        /\ pc' = [pc EXCEPT ![p] = IF out.raised THEN "raised" ELSE "returned"]
        /\ ret' = [ret EXCEPT ![p] = out.value]
    /\ UNCHANGED <<participant, participant_role, created_for, found, seen>>
    /\ UNCHANGED <<tvars, evars>>

GetByIncidentIdAndRole(p) ==
    \E incident_id \in IncidentIds, role \in RoleNames :
        LookupReturns(p,
            LookupArgs("get_by_incident_id_and_role", "incident", incident_id, role, None),
            {get_by_incident_id_and_role(incident_id, role)})

GetByIncidentIdAndServiceId(p) ==
    \E incident_id \in IncidentIds, service_id \in ServiceIds :
        LookupReturns(p,
            LookupArgs("get_by_incident_id_and_service_id", "incident", incident_id,
                       IdleArgs.role, service_id),
            get_by_incident_id_and_service_id(incident_id, service_id))

GetByCaseIdAndServiceId(p) ==
    \E case_id \in CaseIds, service_id \in ServiceIds :
        LookupReturns(p,
            LookupArgs("get_by_case_id_and_service_id", "case", case_id,
                       IdleArgs.role, service_id),
            get_by_case_id_and_service_id(case_id, service_id))

\* the caller is done with its call
Finish(p) ==
    /\ pc[p] \in {"returned", "raised", "faulted"}
    /\ pc' = [pc EXCEPT ![p] = "idle"]
    /\ args' = [args EXCEPT ![p] = IdleArgs]
    /\ found' = [found EXCEPT ![p] = None]
    /\ seen' = [seen EXCEPT ![p] = 0]
    /\ ret' = [ret EXCEPT ![p] = None]
    /\ UNCHANGED <<participant, participant_role, created_for>>
    /\ UNCHANGED <<tvars, evars>>

(***************************************************************************)
(* Terms and definitions                                                   *)
(***************************************************************************)
TermTexts == {"oncall", "sev"}
DefinitionTexts == {"x", "y"}
\* project 1 exists; no project is named 2
ProjectIds == {1}
ProjectArgs == {1, 2}

\* the term_in of a call: text, project and the texts of its definitions
TermIns ==
    {[text |-> t, project |-> pr, definitions |-> d] :
        t \in TermTexts, pr \in ProjectArgs, d \in SeqsUpTo(DefinitionTexts, 2)}

NoTermCall ==
    [op |-> "none", term_in |-> [text |-> "oncall", project |-> 1, definitions |-> <<>>],
     path |-> "none", raised |-> FALSE, ret |-> None, old |-> {}]

\* definition_service.upsert of one definition: the table afterwards
UpsertOne(table, text) ==
    IF \E d \in Ids(table) : table[d].text = text THEN table
    ELSE Append(table, [text |-> text])

RECURSIVE UpsertAll(_, _)
\* the table after upserting each definition of the list in turn
UpsertAll(table, texts) ==
    IF texts = <<>> THEN table
    ELSE UpsertAll(UpsertOne(table, Head(texts)), Tail(texts))

\* the Definition rows the upserts of the list return
Upserted(table, texts) ==
    {d \in Ids(table) : \E i \in 1..Len(texts) : table[d].text = texts[i]}

TermDefinitions_merge(old, definitions) == old \cup definitions

\* term.definitions = definitions
TermDefinitions(old, definitions) == definitions

\* update: the tables afterwards
update(op, id, term_in) ==
    LET table == UpsertAll(definition, term_in.definitions)
        definitions == Upserted(table, term_in.definitions)
    IN  /\ definition' = table
        /\ term' = [term EXCEPT ![id] =
                [@ EXCEPT !.text = term_in.text,
                          !.definitions = TermDefinitions(@, definitions)]]
        /\ term_call' = [op |-> op, term_in |-> term_in, path |-> "update",
                         raised |-> FALSE, ret |-> id, old |-> term[id].definitions]

\* create: the tables afterwards
create(op, term_in) ==
    IF term_in.project \notin ProjectIds
    THEN \* get_by_name_or_raise raises
         /\ term_call' = [op |-> op, term_in |-> term_in, path |-> "create",
                          raised |-> TRUE, ret |-> None, old |-> {}]
         /\ UNCHANGED <<term, definition>>
    ELSE LET table == UpsertAll(definition, term_in.definitions)
             definitions == Upserted(table, term_in.definitions)
         IN  /\ Len(term) < MaxTerms
             /\ definition' = table
             /\ term' = Append(term, [text |-> term_in.text, project_id |-> term_in.project,
                                      definitions |-> definitions])
             /\ term_call' = [op |-> op, term_in |-> term_in, path |-> "create",
                              raised |-> FALSE, ret |-> Len(term) + 1, old |-> {}]

TermCreate ==
    /\ \E term_in \in TermIns :
            create("create", term_in)
    /\ UNCHANGED <<pvars, evars>>

TermUpdateOrCreate ==
    /\ \E term_in \in TermIns :
            \E instance \in First({id \in Ids(term) : term[id].text = term_in.text}) :
                IF instance # None
                THEN update("update_or_create", instance, term_in)
                ELSE create("update_or_create", term_in)
    /\ UNCHANGED <<pvars, evars>>

(***************************************************************************)
(* The entity recalculation flow                                           *)
(***************************************************************************)
EntityTypeIds == {1, 2, 3}
\* entity_type_service.get_all(scope=all).all(): the entity types of scope all
AllScopedList == <<1>>
AllScoped == {AllScopedList[i] : i \in DOMAIN AllScopedList}
SignalInstanceIds == {1, 2}
\* signal_instance.signal
SignalOf(signal_instance) == signal_instance
SignalIds == {1, 2}

\* a Python value that may be None: <<>> is None, <<v>> is the value v
PyNone == <<>>
Some(v) == <<v>>
\* the truth value of a list or None
Truthy(opt) == opt # PyNone /\ opt[1] # <<>>

\* list.append(x): the list afterwards, and what the call returns
ListAppend(list, x) == [list |-> Append(list, x), returns |-> PyNone]

\* entity_service.find_entities: the entities of the types that match the instance
Matches(signal_instance, entity_type) == ~(signal_instance = 2 /\ entity_type = 3)
FindEntities(signal_instance, entity_types) ==
    {t \in entity_types : Matches(signal_instance, t)}

Range(seq) == {seq[i] : i \in DOMAIN seq}

IdleFlow ==
    [pc |-> "idle", entity_type |-> 1, signal_instance |-> 1, ret |-> None,
     raised |-> FALSE, notification |-> "none"]

\* recalculate_entity_flow up to the notification
Recalculate ==
    /\ flow.pc \in {"idle", "returned"}
    /\ \E entity_type \in EntityTypeIds, signal_instance \in SignalInstanceIds :
        LET signal == SignalOf(signal_instance)
            \* entity_types is assigned twice: what the second assignment drops
            fetched == Some(AllScopedList)
            appended == ListAppend(signal_entity_types[signal], entity_type)
            entity_types == appended.returns
        IN  /\ Len(signal_entity_types[signal]) < MaxEntityTypes
            /\ signal_entity_types' = [signal_entity_types EXCEPT ![signal] = appended.list]
            /\ IF Truthy(entity_types)
               THEN /\ entities' = [entities EXCEPT ![signal_instance] =
                            FindEntities(signal_instance, Range(entity_types[1]))]
                    /\ committed' = [signal_entity_types |-> signal_entity_types',
                                     entities |-> entities']
               ELSE UNCHANGED <<entities, committed>>
            /\ flow' = [pc |-> "notify", entity_type |-> entity_type,
                        signal_instance |-> signal_instance, ret |-> None,
                        raised |-> FALSE, notification |-> "none"]
    /\ UNCHANGED log
    /\ UNCHANGED <<pvars, tvars>>

\* send_entity_update_notification returns
NotificationSent ==
    /\ flow.pc = "notify"
    /\ flow' = [flow EXCEPT !.pc = "returned", !.ret = flow.signal_instance,
                            !.notification = "sent"]
    /\ UNCHANGED <<signal_entity_types, entities, committed, log>>
    /\ UNCHANGED <<pvars, tvars>>

ExceptClause_reraise ==
    /\ flow' = [flow EXCEPT !.pc = "returned", !.raised = TRUE,
                            !.notification = "failed"]
    /\ UNCHANGED <<signal_entity_types, entities, committed, log>>

\* except Exception: log.warning(...), then return signal_instance
ExceptClause ==
    /\ log' = log + 1
    /\ flow' = [flow EXCEPT !.pc = "returned", !.ret = flow.signal_instance,
                            !.notification = "failed"]
    /\ UNCHANGED <<signal_entity_types, entities, committed>>

\* send_entity_update_notification raises
NotificationFailed ==
    /\ flow.pc = "notify"
    /\ log < MaxLog
    /\ ExceptClause
    /\ UNCHANGED <<pvars, tvars>>

Init ==
    /\ participant = <<>>
    /\ participant_role = <<>>
    /\ created_for = <<>>
    /\ pc = [p \in Procs |-> "idle"]
    /\ args = [p \in Procs |-> IdleArgs]
    /\ found = [p \in Procs |-> None]
    /\ seen = [p \in Procs |-> 0]
    /\ ret = [p \in Procs |-> None]
    /\ term = <<>>
    /\ definition = <<>>
    /\ term_call = NoTermCall
    /\ signal_entity_types = [g \in SignalIds |-> <<>>]
    \* each instance holds the entities found when it was created
    /\ entities = [i \in SignalInstanceIds |-> FindEntities(i, AllScoped)]
    /\ committed = [signal_entity_types |-> signal_entity_types, entities |-> entities]
    /\ flow = IdleFlow
    /\ log = 0

(***************************************************************************)
(* The resolver with one caller                                            *)
(***************************************************************************)
ResolverCalls ==
    GetOrCreateCalls(SubjectRefs, IndividualIds, {0, 1},
                     SeqsUpTo({"participant"}, 1))

Next ==
    \/ GetOrCreateQuery(1, ResolverCalls)
    \/ GetOrCreateMiss(1)
    \/ GetOrCreateHit(1)
    \/ Associate(1)
    \/ Finish(1)

Spec == Init /\ [][Next]_vars

(***************************************************************************)
(* The hit path: one caller, one pair, every service and every role list   *)
(***************************************************************************)
HitCalls ==
    GetOrCreateCalls({<<"incident", 1>>}, {1}, ServiceIdArgs,
                     SeqsUpTo(RoleNames, MaxRoleRows))

NextHit ==
    \/ GetOrCreateQuery(1, HitCalls)
    \/ GetOrCreateMiss(1)
    \/ GetOrCreateHit(1)
    \/ Associate(1)
    \/ Finish(1)

SpecHit == Init /\ [][NextHit]_vars

(***************************************************************************)
(* The lookup by role, with one caller                                     *)
(***************************************************************************)
RoleCalls ==
    GetOrCreateCalls({<<"incident", 1>>, <<"case", 1>>}, IndividualIds, {0},
                     SeqsUpTo(RoleNames, 1))

NextRole ==
    \/ GetOrCreateQuery(1, RoleCalls)
    \/ GetOrCreateMiss(1)
    \/ GetOrCreateHit(1)
    \/ Associate(1)
    \/ Renounce(1)
    \/ GetByIncidentIdAndRole(1)
    \/ Finish(1)

SpecRole == Init /\ [][NextRole]_vars

(***************************************************************************)
(* The lookups by service id, with one caller                              *)
(***************************************************************************)
ServiceCalls ==
    GetOrCreateCalls({<<"incident", 1>>, <<"case", 1>>}, IndividualIds, ServiceIdArgs,
                     {<<>>})

NextService ==
    \/ GetOrCreateQuery(1, ServiceCalls)
    \/ GetOrCreateMiss(1)
    \/ GetOrCreateHit(1)
    \/ Associate(1)
    \/ GetByIncidentIdAndServiceId(1)
    \/ GetByCaseIdAndServiceId(1)
    \/ Finish(1)

SpecService == Init /\ [][NextService]_vars

(***************************************************************************)
(* The resolver with concurrent callers                                    *)
(***************************************************************************)
ConcCalls ==
    GetOrCreateCalls({<<"incident", 1>>}, IndividualIds, {0, 1}, {<<>>})

NextConc ==
    \E p \in Procs :
        \/ GetOrCreateQuery(p, ConcCalls)
        \/ GetOrCreateMiss(p)
        \/ GetOrCreateHit(p)
        \/ Associate(p)
        \/ Finish(p)

SpecConc == Init /\ [][NextConc]_vars

(***************************************************************************)
(* The term service                                                        *)
(***************************************************************************)
NextTerm ==
    \/ TermCreate
    \/ TermUpdateOrCreate

SpecTerm == Init /\ [][NextTerm]_vars

(***************************************************************************)
(* The entity recalculation flow                                           *)
(***************************************************************************)
NextEntity ==
    \/ Recalculate
    \/ NotificationSent
    \/ NotificationFailed

SpecEntity == Init /\ [][NextEntity]_vars

(***************************************************************************)
(* The properties                                                          *)
(***************************************************************************)
\* the (subject, individual) of a call
Triple(a) == <<a.subject_type, a.subject_id, a.individual_id>>

\* p's get_or_create has returned, by the miss path or by the hit path
ReturnedMiss(p) ==
    pc[p] = "returned" /\ args[p].op = "get_or_create" /\ found[p] = None
ReturnedHit(p) ==
    pc[p] = "returned" /\ args[p].op = "get_or_create" /\ found[p] # None

\* C1: with one caller, a get_or_create that creates a participant creates the
\* only one ever created for its (subject, individual): a second call with the
\* same subject id, subject type and individual id returns the first call's
\* participant and creates none.
C1_SecondCallReturnsSame ==
    \A p \in Procs :
        ReturnedMiss(p) =>
            /\ ret[p] \in Ids(participant)
            /\ created_for[ret[p]] = Triple(args[p])
            /\ \A id \in Ids(participant) \ {ret[p]} : created_for[id] # Triple(args[p])

\* C2: no step changes the service of a participant that has one; in
\* particular the hit path of get_or_create leaves it, whatever service id the
\* call supplies.
C2_ServiceWriteOnce ==
    [][\A id \in Ids(participant) :
            participant[id].service_id # None =>
                participant'[id].service_id = participant[id].service_id]_vars

\* a hit-path call that supplied another service than the one the participant has
C2_Witness ==
    \E p \in Procs :
        /\ ReturnedHit(p)
        /\ args[p].service_id \in ServiceIds
        /\ participant[ret[p]].service_id \in ServiceIds
        /\ participant[ret[p]].service_id # args[p].service_id

\* the roles of participant id in a participant_role table
RolesIn(table, id) == {r \in Ids(table) : table[r].participant_id = id}

\* C3: a hit-path step with a role list of size N leaves every role row there
\* was as it was and appends N rows to the participant, one per requested role
\* and of that role, so that its role count grows by exactly N.
C3_HitAppendsEveryRole ==
    [][\A p \in Procs :
            (pc[p] = "queried" /\ found[p] # None /\ pc'[p] = "returned") =>
                LET roles == args[p].participant_roles
                    n == Len(participant_role)
                IN  /\ Len(participant_role') = n + Len(roles)
                    /\ SubSeq(participant_role', 1, n) = participant_role
                    /\ \A i \in 1..Len(roles) :
                            /\ participant_role'[n + i].role = roles[i]
                            /\ participant_role'[n + i].participant_id = found[p]
                    /\ Cardinality(RolesIn(participant_role', found[p])) =
                            Cardinality(RolesIn(participant_role, found[p])) + Len(roles)]_vars

\* a hit-path call with roles has returned, and the participant holds two roles
\* of the same name
C3_Witness ==
    \E p \in Procs :
        /\ ReturnedHit(p)
        /\ Len(args[p].participant_roles) >= 1
        /\ \E r1, r2 \in RolesOf(ret[p]) :
            /\ r1 # r2
            /\ participant_role[r1].role = participant_role[r2].role

\* the participants of an incident that hold an active role of the given name
ActiveHolders(incident_id, role) ==
    {id \in Ids(participant) :
        /\ participant[id].incident_id = incident_id
        /\ \E r \in Ids(participant_role) :
            /\ participant_role[r].participant_id = id
            /\ participant_role[r].role = role
            /\ participant_role[r].renounced_at = None}

ByRole(p) == args[p].op = "get_by_incident_id_and_role"

C5_Recalculated ==
    flow.pc \in {"notify", "returned"} =>
        /\ entities[flow.signal_instance] =
                FindEntities(flow.signal_instance, AllScoped \cup {flow.entity_type})
        /\ committed.entities[flow.signal_instance] = entities[flow.signal_instance]

\* C6: an update_or_create with the text of a term there is creates no term and
\* leaves the term it returns with exactly the definitions of its list, one
\* definition row per text of the list.
C6_UpdateReplaces ==
    [][(/\ term_call'.op = "update_or_create"
        /\ \E id \in Ids(term) : term[id].text = term_call'.term_in.text) =>
            LET id == term_call'.ret
                texts == term_call'.term_in.definitions
            IN  /\ Len(term') = Len(term)
                /\ id \in Ids(term)
                /\ term[id].text = term_call'.term_in.text
                /\ {definition'[d].text : d \in term'[id].definitions} = Range(texts)
                /\ Cardinality(term'[id].definitions) = Cardinality(Range(texts))]_tvars

\* an update that dropped a definition the term had
C6_Witness ==
    /\ term_call.op = "update_or_create"
    /\ term_call.path = "update"
    /\ \E d \in term_call.old : d \notin term[term_call.ret].definitions
    /\ term[term_call.ret].definitions # {}

\* the part of an email after its "@"
AfterAt(email) ==
    LET at == CHOOSE i \in DOMAIN email : email[i] = "@"
    IN  SubSeq(email, at + 1, Len(email))

\* what is expected of a key the plugin did or did not supply
Expected(key, supplied, email) ==
    IF key \in supplied THEN PluginValue(key)
    ELSE IF key = "team" THEN AfterAt(email) ELSE Unknown

\* what Enrich gives for whatever part of the three keys a plugin supplies
EnrichIndependent(email) ==
    \A keys \in SUBSET PluginKeys :
        LET fields == Enrich([k \in keys |-> PluginValue(k)], email)
        IN  /\ fields.location = Expected("location", keys, email)
            /\ fields.team = Expected("team", keys, email)
            /\ fields.department = Expected("department", keys, email)

\* C7: a participant new from the miss path has the plugin's location, team and
\* department where the plugin supplied them and, for each it did not (all
\* three without a plugin), "Unknown", the email's part after "@", "Unknown";
\* and so it would for any other part of the three keys the plugin might supply.
C7_Defaults ==
    \A p \in Procs :
        ReturnedMiss(p) =>
            LET row == participant[ret[p]]
                email == Email(args[p].individual_id)
                supplied ==
                    IF ProjectOf(args[p].subject_type, args[p].subject_id)
                            \in ContactPluginProjects
                    THEN PluginKnows(args[p].individual_id) ELSE {}
            IN  /\ row.location = Expected("location", supplied, email)
                /\ row.team = Expected("team", supplied, email)
                /\ row.department = Expected("department", supplied, email)
                /\ EnrichIndependent(email)

\* a@example.com, created for an incident whose project has no plugin
C7_Witness ==
    \E p \in Procs :
        /\ ReturnedMiss(p)
        /\ args[p].subject_type = "incident"
        /\ args[p].individual_id = 1
        /\ participant[ret[p]].team =
                <<"e", "x", "a", "m", "p", "l", "e", ".", "c", "o", "m">>
        /\ participant[ret[p]].location = Unknown
        /\ participant[ret[p]].department = Unknown

\* C8: the step in which the notification fails leaves the session and what is
\* committed as they were, logs a warning, and the flow returns the signal
\* instance without raising.
C8_FailureIsSwallowed ==
    [][(flow.pc = "notify" /\ flow'.notification = "failed") =>
            /\ committed' = committed
            /\ entities' = entities
            /\ signal_entity_types' = signal_entity_types
            /\ log' = log + 1
            /\ flow'.pc = "returned"
            /\ ~flow'.raised
            /\ flow'.ret = flow.signal_instance]_evars

\* the flow returned its signal instance after a failed notification
C8_Witness ==
    /\ flow.pc = "returned"
    /\ flow.notification = "failed"
    /\ flow.ret = flow.signal_instance
    /\ log > 0

ByService(p) ==
    args[p].op \in {"get_by_incident_id_and_service_id", "get_by_case_id_and_service_id"}

\* the participants of a subject with the given service
WithService(subject_type, subject_id, service_id) ==
    {id \in Ids(participant) :
        /\ (IF subject_type = "incident" THEN participant[id].incident_id
            ELSE participant[id].case_id) = subject_id
        /\ participant[id].service_id = service_id}

\* C9: a lookup by service id, of an incident or of a case, never raises; it
\* returns one of the matching participants when there are any, and null when
\* there is none.
C9_FirstMatchNoError ==
    \A p \in Procs :
        ByService(p) =>
            LET rows == WithService(args[p].subject_type, args[p].subject_id,
                                    args[p].service_id)
            IN  /\ pc[p] # "raised"
                /\ rows = {} => ret[p] = None
                /\ rows # {} => ret[p] \in rows

\* C10: nothing ties the insert to the check: two callers that both saw a miss
\* and have both returned each hold a participant row of their own.
C10_EachMissInserts ==
    \A p, q \in Procs :
        (p # q /\ ReturnedMiss(p) /\ ReturnedMiss(q)) =>
            /\ ret[p] \in Ids(participant)
            /\ ret[q] \in Ids(participant)
            /\ ret[p] # ret[q]

\* two callers for the same pair both queried before either row was there, both
\* inserted, and the pair now has two participants
C10_Witness ==
    \E p, q \in Procs :
        /\ p # q
        /\ ReturnedMiss(p)
        /\ ReturnedMiss(q)
        /\ Triple(args[p]) = Triple(args[q])
        /\ seen[p] < ret[p] /\ seen[p] < ret[q]
        /\ seen[q] < ret[p] /\ seen[q] < ret[q]
        /\ ret[p] # ret[q]
        /\ PairMatches(args[p].subject_id, args[p].subject_type,
                       args[p].individual_id) = {ret[p], ret[q]}

(***************************************************************************)
(* C11: when get_or_create misses and the subject record does not exist,   *)
(* the call faults before any write: no participant and no participant     *)
(* role is created, nothing is returned, and the stored rows are the same  *)
(* as before the call.                                                     *)
(***************************************************************************)
MissedOnMissingSubject(p) ==
    /\ pc[p] = "queried"
    /\ args[p].op = "get_or_create"
    /\ found[p] = None
    /\ ~SubjectExists(args[p].subject_type, args[p].subject_id)

C11_FaultBeforeAnyWrite ==
    [][\A p \in Procs :
            MissedOnMissingSubject(p) =>
                /\ pc'[p] = "faulted"
                /\ ret'[p] = None
                /\ participant' = participant
                /\ participant_role' = participant_role]_pvars

\* a call for the missing incident has faulted while rows of earlier calls are
\* stored
C11_Witness ==
    /\ pc[1] = "faulted"
    /\ args[1].op = "get_or_create"
    /\ ~SubjectExists(args[1].subject_type, args[1].subject_id)
    /\ Len(participant) > 0
    /\ Len(participant_role) > 0
====
